---- MODULE Spec2Model ----
(***************************************************************************)
(* A model of crudinator.py: the Crudinator table mapper bound to the      *)
(* dataclass widget(rowid, name, color), together with the part of the     *)
(* SQLite executor that its generated statements exercise.                 *)
(***************************************************************************)
EXTENDS Integers, Sequences, FiniteSets, TLC

\* ------------------------------------------------------------------ bounds

\* Largest rowid the storage engine hands out in the model.
MaxRowid == 2

\* Largest limit argument passed to read_generator.
MaxLimit == 1

\* --------------------------------------------------------------- constants

\* CrudinatorRow.rowid defaults to None; rowids of stored rows start at 1.
NullRowid == 0

\* Python's None / SQL NULL as a field value.
None == "<None>"

\* read_generator's ignore_values: the wildcard string.
IgnoreValues == {"any"}

\* The field every statement builder skips (ignore, ignore_keys, ignores).
IgnoreKeys == {"rowid"}

\* The table name: the bound dataclass's class name, lower-cased.
TableName == "widget"

\* dataclasses.fields() of the bound dataclass, base class field first.
Fields == <<"rowid", "name", "color">>

\* The columns of the table: every field but rowid, in declared order.
Columns == SelectSeq(Fields, LAMBDA f : f \notin IgnoreKeys)

NameValues == {"any", "bolt"}
ColorValues == {None, "any", "red"}

Rowids == 1..MaxRowid

\* Every record of the bound type the caller can hold.
Records == [rowid : {NullRowid} \cup Rowids, name : NameValues, color : ColorValues]

\* Every row the table can store.
StoredRows == [rowid : Rowids, name : NameValues, color : ColorValues]

\* The argument sets of the schema and read calls.
PkChoices == {<<>>, <<"name">>}
IndexNames == {"ix_color"}
IndexColumnChoices == {<<"color">>}
Limits == 0..MaxLimit
Offsets == {0, 1}
OrderByChoices == {None, "color"}
Directions == {"ASC", "DESC"}

VARIABLES
    tableExists,  \* the table of the bound type exists in the database
    tablePk,      \* its PRIMARY KEY column list (<<>>: none)
    indexes,      \* the indexes that exist, each [name, columns, unique]
    rows,         \* the stored rows, each [rowid, name, color]
    rec,          \* the record object the caller holds and passes to the mapper
    persisted,    \* a create of this record object has succeeded
    call,         \* the last mapper call and its arguments
    pre,          \* the database and the record as they were before the last call
    executed,     \* the statements the last call handed to cur.execute
    raised,       \* the exception the last call raised ("none": it returned)
    result        \* the records the last read_generator yielded

vars == <<tableExists, tablePk, indexes, rows, rec, persisted, call, pre,
          executed, raised, result>>

\* ------------------------------------------------------------ sequences

Range(s) == {s[i] : i \in 1..Len(s)}

RECURSIVE SeqOfSet(_)
\* The rows of a set in rowid order: a table scan of a rowid table.
SeqOfSet(S) ==
    IF S = {} THEN <<>>
    ELSE LET lo == CHOOSE r \in S : \A q \in S : r.rowid <= q.rowid
         IN  <<lo>> \o SeqOfSet(S \ {lo})

\* ------------------------------------------------- generated statements

\* One clause of a statement's text.
Tok(kw, col, dir, n, m) == [kw |-> kw, col |-> col, dir |-> dir, n |-> n, m |-> m]
Kw(kw) == Tok(kw, "", "", 0, 0)
KwCol(kw, col) == Tok(kw, col, "", 0, 0)

\* A statement handed to cur.execute: its text and its bound parameters.
Statement(sql, args) == [sql |-> sql, args |-> args]

\* ensure_table as it would be with the IF NOT EXISTS left out of the statement.
CreateTableStatementUnconditional(pk) ==
    Statement(<<KwCol("CREATE TABLE", TableName)>>
              \o [i \in 1..Len(Columns) |-> KwCol("COLUMN", Columns[i])]
              \o (IF pk # <<>>
                  THEN [i \in 1..Len(pk) |-> KwCol("PRIMARY KEY", pk[i])]
                  ELSE <<>>),
              <<>>)

\* ensure_table: CREATE TABLE IF NOT EXISTS <table>(<columns>[, PRIMARY KEY (<pk>)]);
CreateTableStatement(pk) ==
    Statement(<<Kw("CREATE TABLE"), KwCol("IF NOT EXISTS", TableName)>>
              \o [i \in 1..Len(Columns) |-> KwCol("COLUMN", Columns[i])]
              \o (IF pk # <<>>
                  THEN [i \in 1..Len(pk) |-> KwCol("PRIMARY KEY", pk[i])]
                  ELSE <<>>),
              <<>>)

\* ensure_index: CREATE [UNIQUE] INDEX IF NOT EXISTS <name> ON <table> (<columns>);
CreateIndexStatement(name, columns, unique) ==
    Statement(<<Kw(IF unique THEN "CREATE UNIQUE INDEX" ELSE "CREATE INDEX"),
                KwCol("IF NOT EXISTS", name), KwCol("ON", TableName)>>
              \o [i \in 1..Len(columns) |-> KwCol("COLUMN", columns[i])],
              <<>>)

\* create: INSERT INTO <table> (<columns>) VALUES (?, ...) RETURNING rowid;
InsertStatement(row) ==
    Statement(<<KwCol("INSERT INTO", TableName)>>
              \o [i \in 1..Len(Columns) |-> KwCol("COLUMN", Columns[i])]
              \o [i \in 1..Len(Columns) |-> Kw("?")]
              \o <<KwCol("RETURNING", "rowid")>>,
              [i \in 1..Len(Columns) |-> row[Columns[i]]])

\* read_generator's attention list: the prototype's fields that are neither
\* an ignored key nor hold an ignored value, in declared order.
Attention(prototype) ==
    SelectSeq(Fields, LAMBDA f : f \notin IgnoreKeys /\ prototype[f] \notin IgnoreValues)

\* The WHERE part as it would be with every attended field given " WHERE f=?",
\* the i == 0 test left out.
PrototypePartsAllWhere(hasPrototype, prototype) ==
    IF hasPrototype
    THEN LET attention == Attention(prototype)
         IN  [i \in 1..Len(attention) |-> KwCol("WHERE", attention[i])]
    ELSE <<>>

\* read_generator's WHERE part: " WHERE f=?" for the first attended field,
\* " AND f=?" for the others; nothing without a prototype.
PrototypeParts(hasPrototype, prototype) ==
    IF hasPrototype
    THEN LET attention == Attention(prototype)
         IN  [i \in 1..Len(attention) |->
                 KwCol(IF i = 1 THEN "WHERE" ELSE "AND", attention[i])]
    ELSE <<>>

\* read_generator's bound parameters: the attended fields' values.
PrototypeArgs(hasPrototype, prototype) ==
    IF hasPrototype
    THEN LET attention == Attention(prototype)
         IN  [i \in 1..Len(attention) |-> prototype[attention[i]]]
    ELSE <<>>

\* The LIMIT part as it would be if a truthy offset alone also appended it.
LimitPartOnOffset(limit, offset) ==
    IF limit # 0 \/ offset # 0 THEN <<Tok("LIMIT", "", "", limit, offset)>> ELSE <<>>

\* read_generator's " LIMIT n OFFSET m", appended when limit is truthy.
LimitPart(limit, offset) ==
    IF limit # 0 THEN <<Tok("LIMIT", "", "", limit, offset)>> ELSE <<>>

\* read_generator's " ORDER BY col dir", appended when order_by is truthy.
OrderByPart(order_by, direction) ==
    IF order_by # None THEN <<Tok("ORDER BY", order_by, direction, 0, 0)>> ELSE <<>>

\* read_generator: SELECT rowid, * FROM <table>[ WHERE ..][ LIMIT ..][ ORDER BY ..];
SelectStatement(hasPrototype, prototype, limit, offset, order_by, direction) ==
    Statement(<<KwCol("SELECT rowid, * FROM", TableName)>>
              \o PrototypeParts(hasPrototype, prototype)
              \o LimitPart(limit, offset)
              \o OrderByPart(order_by, direction),
              PrototypeArgs(hasPrototype, prototype))

\* update as it would be if only the first column were set: a sparse update.
UpdateStatementFirstColumn(row) ==
    Statement(<<KwCol("UPDATE", TableName), KwCol("SET", Columns[1]),
                KwCol("WHERE", "rowid")>>,
              <<row[Columns[1]], row.rowid>>)

\* update: UPDATE <table> SET f=?,... WHERE rowid = ?;
UpdateStatement(row) ==
    Statement(<<KwCol("UPDATE", TableName)>>
              \o [i \in 1..Len(Columns) |-> KwCol("SET", Columns[i])]
              \o <<KwCol("WHERE", "rowid")>>,
              [i \in 1..Len(Columns) |-> row[Columns[i]]] \o <<row.rowid>>)

\* delete as it would be with the WHERE clause left out.
DeleteStatementNoWhere(row) ==
    Statement(<<KwCol("DELETE FROM", TableName)>>, <<>>)

\* delete: DELETE FROM <table> WHERE rowid = ?;
DeleteStatement(row) ==
    Statement(<<KwCol("DELETE FROM", TableName), KwCol("WHERE", "rowid")>>,
              <<row.rowid>>)

\* update as it would be without its guard.
UpdateStatementsUnguarded(row) == <<UpdateStatement(row)>>

\* update's guard: without a rowid it prints and returns, issuing nothing.
UpdateStatements(row) ==
    IF row.rowid = NullRowid THEN <<>> ELSE <<UpdateStatement(row)>>

\* delete's guard: without a rowid it prints and returns, issuing nothing.
DeleteStatements(row) ==
    IF row.rowid = NullRowid THEN <<>> ELSE <<DeleteStatement(row)>>

\* ------------------------------------------------------- the executor
\* cur.execute on a SQLite cursor whose row factory yields dictionaries: what
\* the engine does with each statement the mapper generates.

\* The database a cursor works on.
Db == [tableExists |-> tableExists, tablePk |-> tablePk,
       indexes |-> indexes, rows |-> rows]

\* The outcome of cur.execute: the exception raised ("none": it returned), the
\* database afterwards and the rows the cursor then holds.
Outcome(error, db, fetched) == [error |-> error, db |-> db, fetched |-> fetched]

\* The columns named by a statement's clauses of one keyword, in order.
ClauseCols(sql, kws) ==
    LET picked == SelectSeq(sql, LAMBDA t : t.kw \in kws)
    IN  [i \in 1..Len(picked) |-> picked[i].col]

\* SQL's "=": NULL equals nothing, not even NULL.
SqlEquals(a, b) == a # None /\ b # None /\ a = b

\* The column lists that must be unique: the primary key and the unique indexes.
UniqueKeys(db) ==
    (IF db.tablePk # <<>> THEN {db.tablePk} ELSE {})
    \cup {ix.columns : ix \in {x \in db.indexes : x.unique}}

\* A row collides with another on a key: all of the key's columns are equal
\* and not NULL (SQLite lets NULLs repeat, also in a non-integer primary key).
Collides(row, others, key) ==
    \E r \in others : \A c \in Range(key) : SqlEquals(row[c], r[c])

\* The rowid the engine gives the next inserted row: one more than the largest.
NextRowid(stored) ==
    IF stored = {} THEN 1
    ELSE 1 + (CHOOSE n \in {r.rowid : r \in stored} : \A r \in stored : r.rowid <= n)

\* Whether a CREATE statement says IF NOT EXISTS.
IfNotExists(sql) == \E i \in 1..Len(sql) : sql[i].kw = "IF NOT EXISTS"

\* CREATE TABLE [IF NOT EXISTS]: creates the table; when one of the name exists
\* it does nothing with IF NOT EXISTS and is rejected without.
ExecCreateTable(stmt, db) ==
    IF db.tableExists
    THEN Outcome(IF IfNotExists(stmt.sql) THEN "none" ELSE "sqlite3.OperationalError",
                 db, <<>>)
    ELSE Outcome("none",
                 [db EXCEPT !.tableExists = TRUE,
                            !.tablePk = ClauseCols(stmt.sql, {"PRIMARY KEY"})],
                 <<>>)

\* CREATE [UNIQUE] INDEX [IF NOT EXISTS]: creates the index; when one of the
\* name exists it does nothing with IF NOT EXISTS and is rejected without; a
\* unique index over rows that already collide is rejected.
ExecCreateIndex(stmt, db) ==
    LET name    == stmt.sql[2].col
        unique  == stmt.sql[1].kw = "CREATE UNIQUE INDEX"
        columns == ClauseCols(stmt.sql, {"COLUMN"})
    IN  IF \E ix \in db.indexes : ix.name = name
        THEN Outcome(IF IfNotExists(stmt.sql) THEN "none" ELSE "sqlite3.OperationalError",
                     db, <<>>)
        ELSE IF ~db.tableExists THEN Outcome("sqlite3.OperationalError", db, <<>>)
        ELSE IF unique /\ \E r \in db.rows : Collides(r, db.rows \ {r}, columns)
             THEN Outcome("sqlite3.IntegrityError", db, <<>>)
        ELSE Outcome("none",
                     [db EXCEPT !.indexes = db.indexes \cup
                         {[name |-> name, columns |-> columns, unique |-> unique]}],
                     <<>>)

\* INSERT ... RETURNING rowid: stores the row under the next rowid and leaves
\* {rowid: n} on the cursor; rejected when the table is missing or a key collides.
ExecInsert(stmt, db) ==
    LET columns == ClauseCols(stmt.sql, {"COLUMN"})
        rowid   == NextRowid(db.rows)
        row     == [f \in Range(Fields) |->
                       IF f = "rowid" THEN rowid
                       ELSE IF \E i \in 1..Len(columns) : columns[i] = f
                            THEN stmt.args[CHOOSE i \in 1..Len(columns) : columns[i] = f]
                            ELSE None]
    IN  IF ~db.tableExists THEN Outcome("sqlite3.OperationalError", db, <<>>)
        ELSE IF \E key \in UniqueKeys(db) : Collides(row, db.rows, key)
             THEN Outcome("sqlite3.IntegrityError", db, <<>>)
        ELSE Outcome("none", [db EXCEPT !.rows = db.rows \cup {row}],
                     <<[rowid |-> rowid]>>)

\* The rows a statement's WHERE rowid = ? addresses, its parameter being the
\* k-th bound one: every row when the statement has no WHERE.
Addressed(stmt, db, k) ==
    IF ClauseCols(stmt.sql, {"WHERE"}) = <<>> THEN db.rows
    ELSE {r \in db.rows : r.rowid = stmt.args[k]}

\* UPDATE ... SET c=?,... WHERE rowid = ?: replaces the named columns of the row
\* with that rowid, if there is one; rejected when the new row collides on a key.
ExecUpdate(stmt, db) ==
    LET columns == ClauseCols(stmt.sql, {"SET"})
        hit     == Addressed(stmt, db, Len(columns) + 1)
        new(r)  == [f \in Range(Fields) |->
                       IF \E i \in 1..Len(columns) : columns[i] = f
                       THEN stmt.args[CHOOSE i \in 1..Len(columns) : columns[i] = f]
                       ELSE r[f]]
    IN  IF ~db.tableExists THEN Outcome("sqlite3.OperationalError", db, <<>>)
        ELSE IF \E r \in hit : \E key \in UniqueKeys(db) :
                    Collides(new(r), db.rows \ {r}, key)
             THEN Outcome("sqlite3.IntegrityError", db, <<>>)
        ELSE Outcome("none",
                     [db EXCEPT !.rows = (db.rows \ hit) \cup {new(r) : r \in hit}],
                     <<>>)

\* DELETE ... WHERE rowid = ?: removes the row with that rowid, if there is one.
ExecDelete(stmt, db) ==
    IF ~db.tableExists THEN Outcome("sqlite3.OperationalError", db, <<>>)
    ELSE Outcome("none", [db EXCEPT !.rows = db.rows \ Addressed(stmt, db, 1)], <<>>)

\* The order of the values of a column (NULL first, then text in byte order)
\* as a rank; a rowid ranks as itself.
ValueOrder == <<None, "any", "bolt", "red">>
Rank(f, v) ==
    IF f = "rowid" THEN v ELSE CHOOSE i \in 1..Len(ValueOrder) : ValueOrder[i] = v

RECURSIVE SortRows(_, _, _)
\* ORDER BY col dir over a set of rows; rows equal in col stay in rowid order.
SortRows(S, col, dir) ==
    IF S = {} THEN <<>>
    ELSE LET before(a, b) ==
                 \/ (dir = "ASC"  /\ Rank(col, a[col]) < Rank(col, b[col]))
                 \/ (dir = "DESC" /\ Rank(col, a[col]) > Rank(col, b[col]))
                 \/ (Rank(col, a[col]) = Rank(col, b[col]) /\ a.rowid <= b.rowid)
             first == CHOOSE r \in S : \A q \in S : before(r, q)
         IN  <<first>> \o SortRows(S \ {first}, col, dir)

\* The grammar of a SELECT: FROM, then WHERE with its ANDs, then ORDER BY, then
\* LIMIT. A clause that follows one it may not follow is a syntax error.
SelectSyntaxOk(sql) ==
    /\ Len(sql) >= 1
    /\ sql[1].kw = "SELECT rowid, * FROM"
    /\ \A i \in 2..Len(sql) :
          LET prev == sql[i - 1].kw
          IN  CASE sql[i].kw = "WHERE"    -> prev = "SELECT rowid, * FROM"
                [] sql[i].kw = "AND"      -> prev \in {"WHERE", "AND"}
                [] sql[i].kw = "ORDER BY" ->
                       /\ prev \in {"SELECT rowid, * FROM", "WHERE", "AND"}
                       /\ sql[i].col \in Range(Fields)
                       /\ sql[i].dir \in {"ASC", "DESC"}
                [] sql[i].kw = "LIMIT"    ->
                       prev \in {"SELECT rowid, * FROM", "WHERE", "AND", "ORDER BY"}
                [] OTHER -> FALSE

\* The rows LIMIT n OFFSET m keeps of a result.
Window(seq, n, m) ==
    IF m >= Len(seq) THEN <<>>
    ELSE SubSeq(seq, m + 1, IF m + n <= Len(seq) THEN m + n ELSE Len(seq))

\* SELECT rowid, * FROM ...: the rows every predicate holds of, as dictionaries
\* with the rowid, ordered and cut as the statement says. Nothing is changed.
ExecSelect(stmt, db) ==
    LET preds   == ClauseCols(stmt.sql, {"WHERE", "AND"})
        orders  == SelectSeq(stmt.sql, LAMBDA t : t.kw = "ORDER BY")
        limits  == SelectSeq(stmt.sql, LAMBDA t : t.kw = "LIMIT")
        matched == {r \in db.rows :
                       \A i \in 1..Len(preds) : SqlEquals(r[preds[i]], stmt.args[i])}
        ordered == IF orders = <<>> THEN SeqOfSet(matched)
                   ELSE SortRows(matched, orders[1].col, orders[1].dir)
        cut     == IF limits = <<>> THEN ordered
                   ELSE Window(ordered, limits[1].n, limits[1].m)
    IN  IF ~SelectSyntaxOk(stmt.sql) \/ ~db.tableExists
        THEN Outcome("sqlite3.OperationalError", db, <<>>)
        ELSE IF Len(preds) # Len(stmt.args)
        THEN Outcome("sqlite3.ProgrammingError", db, <<>>)
        ELSE Outcome("none", db, cut)

\* cur.execute: what the engine does with a statement, by its first keyword.
Execute(stmt, db) ==
    LET verb == stmt.sql[1].kw
    IN  CASE verb = "CREATE TABLE" -> ExecCreateTable(stmt, db)
          [] verb \in {"CREATE INDEX", "CREATE UNIQUE INDEX"} -> ExecCreateIndex(stmt, db)
          [] verb = "INSERT INTO" -> ExecInsert(stmt, db)
          [] verb = "SELECT rowid, * FROM" -> ExecSelect(stmt, db)
          [] verb = "UPDATE" -> ExecUpdate(stmt, db)
          [] verb = "DELETE FROM" -> ExecDelete(stmt, db)

\* BaseModel.parse_from_dict on a fresh instance: each field takes the value
\* the row's dictionary holds under the field's name.
ParseFromDict(row) == [f \in Range(Fields) |-> row[f]]

\* ------------------------------------------------------------ the mapper

\* What is recorded of the last call, for the properties to refer to: its
\* name and arguments (NoCall: none is pending), and Snapshot before it.
NoCall == [op |-> "none", hasPrototype |-> FALSE, limit |-> 0, offset |-> 0,
           order_by |-> None, direction |-> "ASC", pk |-> <<>>, name |-> "",
           columns |-> <<>>, unique |-> FALSE]

\* What a call could change, as it is before the call.
Snapshot == [db |-> Db, rec |-> rec]

\* The database takes the state an executed statement left it in.
Commit(db) ==
    /\ tableExists' = db.tableExists
    /\ tablePk' = db.tablePk
    /\ indexes' = db.indexes
    /\ rows' = db.rows

\* create as it would be if it never wrote the rowid back to the record.
CreateRecordNoWriteBack(row, out) == row

\* create as it would be if it set row.rowid, to the rowid it expects, before
\* execute has returned.
CreateRecordEager(row, out) ==
    [row EXCEPT !.rowid = IF out.error = "none" THEN out.fetched[1].rowid
                          ELSE NextRowid(out.db.rows)]

\* The caller's record after create: rowid_row.get('rowid') is written to
\* row.rowid once execute and fetchone have returned; an exception of execute
\* leaves create before that assignment.
CreateRecord(row, out) ==
    IF out.error # "none" THEN row
    ELSE [row EXCEPT !.rowid = out.fetched[1].rowid]

\* The records read_generator yields: one fresh instance per row of the
\* cursor, filled by parse_from_dict.
Hydrate(fetched) == [i \in 1..Len(fetched) |-> ParseFromDict(fetched[i])]

\* read_generator on a database, iterated to its end: the statement it
\* executes, the exception it raises and the records it yields.
ReadGenerator(db, hasPrototype, prototype, limit, offset, order_by, direction) ==
    LET stmt == SelectStatement(hasPrototype, prototype, limit, offset, order_by, direction)
        out  == Execute(stmt, db)
    IN  [executed |-> <<stmt>>, raised |-> out.error, result |-> Hydrate(out.fetched)]

Init ==
    /\ tableExists = FALSE
    /\ tablePk = <<>>
    /\ indexes = {}
    /\ rows = {}
    /\ rec = [rowid |-> NullRowid, name |-> "bolt", color |-> "red"]
    /\ persisted = FALSE
    /\ call = NoCall
    /\ pre = Snapshot
    /\ executed = <<>>
    /\ raised = "none"
    /\ result = <<>>

\* The caller builds a record of the bound type, with the rowid it chooses and
\* the other fields as in the record it held, and holds the new one from now on.
NewRecord(rowid) ==
    /\ call.op = "none"
    /\ rec.rowid # rowid \/ persisted
    /\ rec' = [rec EXCEPT !.rowid = rowid]
    /\ persisted' = FALSE
    /\ call' = NoCall
    /\ pre' = [db |-> Db, rec |-> rec']
    /\ executed' = <<>>
    /\ raised' = "none"
    /\ result' = <<>>
    /\ UNCHANGED <<tableExists, tablePk, indexes, rows>>

\* The caller assigns one of its record's fields other than rowid.
SetField(f, v) ==
    /\ call.op = "none"
    /\ rec[f] # v
    /\ rec' = [rec EXCEPT ![f] = v]
    /\ call' = NoCall
    /\ pre' = [db |-> Db, rec |-> rec']
    /\ executed' = <<>>
    /\ raised' = "none"
    /\ result' = <<>>
    /\ UNCHANGED <<tableExists, tablePk, indexes, rows, persisted>>

\* Crudinator.ensure_table(cur, pk)
EnsureTable(pk) ==
    LET stmt == CreateTableStatement(pk)
        out  == Execute(stmt, Db)
    IN  /\ call.op = "none"
        /\ call' = [NoCall EXCEPT !.op = "ensure_table", !.pk = pk]
        /\ pre' = Snapshot
        /\ executed' = <<stmt>>
        /\ raised' = out.error
        /\ Commit(out.db)
        /\ result' = <<>>
        /\ UNCHANGED <<rec, persisted>>

\* Crudinator.ensure_index(cur, name, columns, unique)
EnsureIndex(name, columns, unique) ==
    LET stmt == CreateIndexStatement(name, columns, unique)
        out  == Execute(stmt, Db)
    IN  /\ call.op = "none"
        /\ call' = [NoCall EXCEPT !.op = "ensure_index", !.name = name,
                                  !.columns = columns, !.unique = unique]
        /\ pre' = Snapshot
        /\ executed' = <<stmt>>
        /\ raised' = out.error
        /\ Commit(out.db)
        /\ result' = <<>>
        /\ UNCHANGED <<rec, persisted>>

\* Crudinator.create(row, cur) on the caller's record.
Create ==
    LET stmt == InsertStatement(rec)
        out  == Execute(stmt, Db)
    IN  /\ call.op = "none"
        /\ NextRowid(rows) <= MaxRowid
        /\ call' = [NoCall EXCEPT !.op = "create"]
        /\ pre' = Snapshot
        /\ executed' = <<stmt>>
        /\ raised' = out.error
        /\ Commit(out.db)
        /\ rec' = CreateRecord(rec, out)
        /\ persisted' = (persisted \/ out.error = "none")
        /\ result' = <<>>

\* Crudinator.read_generator(cur, prototype, limit, offset, order_by, direction),
\* iterated to its end; the prototype, when given, is the caller's record.
Read(hasPrototype, limit, offset, order_by, direction) ==
    LET rd == ReadGenerator(Db, hasPrototype, rec, limit, offset, order_by, direction)
    IN  /\ call.op = "none"
        /\ call' = [NoCall EXCEPT !.op = "read", !.hasPrototype = hasPrototype,
                                  !.limit = limit, !.offset = offset,
                                  !.order_by = order_by, !.direction = direction]
        /\ pre' = Snapshot
        /\ executed' = rd.executed
        /\ raised' = rd.raised
        /\ result' = rd.result
        /\ UNCHANGED <<tableExists, tablePk, indexes, rows, rec, persisted>>

\* Crudinator.update(row, cur) on the caller's record.
Update ==
    LET stmts == UpdateStatements(rec)
        out   == IF stmts = <<>> THEN Outcome("none", Db, <<>>)
                 ELSE Execute(stmts[1], Db)
    IN  /\ call.op = "none"
        /\ call' = [NoCall EXCEPT !.op = "update"]
        /\ pre' = Snapshot
        /\ executed' = stmts
        /\ raised' = out.error
        /\ Commit(out.db)
        /\ result' = <<>>
        /\ UNCHANGED <<rec, persisted>>

\* Crudinator.delete(row, cur) on the caller's record.
Delete ==
    LET stmts == DeleteStatements(rec)
        out   == IF stmts = <<>> THEN Outcome("none", Db, <<>>)
                 ELSE Execute(stmts[1], Db)
    IN  /\ call.op = "none"
        /\ call' = [NoCall EXCEPT !.op = "delete"]
        /\ pre' = Snapshot
        /\ executed' = stmts
        /\ raised' = out.error
        /\ Commit(out.db)
        /\ result' = <<>>
        /\ UNCHANGED <<rec, persisted>>

\* The awaited call is over: the caller has its outcome and goes on.
Return ==
    /\ call.op # "none"
    /\ call' = NoCall
    /\ pre' = Snapshot
    /\ executed' = <<>>
    /\ raised' = "none"
    /\ result' = <<>>
    /\ UNCHANGED <<tableExists, tablePk, indexes, rows, rec, persisted>>

\* The arguments read_generator is called with: without a prototype its
\* defaults; with one, every limit and offset, and an order with and without
\* a limit.
ReadArgs ==
    {<<FALSE, 0, 0, None, "ASC">>}
    \cup {<<TRUE, l, o, None, "ASC">> : l \in Limits, o \in Offsets}
    \cup {<<TRUE, l, 0, ob, d>> : l \in {0, MaxLimit},
                                 ob \in OrderByChoices \ {None}, d \in Directions}

Next ==
    \/ \E id \in {NullRowid} \cup Rowids : NewRecord(id)
    \/ \E v \in NameValues : SetField("name", v)
    \/ \E v \in ColorValues : SetField("color", v)
    \/ \E pk \in PkChoices : EnsureTable(pk)
    \/ \E n \in IndexNames, c \in IndexColumnChoices, u \in BOOLEAN : EnsureIndex(n, c, u)
    \/ Create
    \/ \E a \in ReadArgs : Read(a[1], a[2], a[3], a[4], a[5])
    \/ Update
    \/ Delete
    \/ Return

Spec == Init /\ [][Next]_vars

\* ---------------------------------------------------------------- claims

\* The rowids a record can carry.
RecordRowids == {NullRowid} \cup Rowids

\* The stored row a record describes: its rowid and its field values.
RowOf(r) == [f \in Range(Fields) |-> r[f]]

\* The rows that were stored under a rowid before the last call.
PreHit(rowid) == {r \in pre.db.rows : r.rowid = rowid}

\* A read_generator call with a prototype and without limit or order has
\* just ended without an exception.
PlainRead ==
    /\ call.op = "read"
    /\ call.hasPrototype
    /\ call.limit = 0
    /\ call.order_by = None
    /\ raised = "none"

\* The records read_generator yielded, as a set.
Yielded == Range(result)

\* C1: round trip. After create(R) has returned for a record R whose name and
\* color are both set (not None), on any prior table content, read_generator
\* with a prototype that has R's name and color (and whatever rowid) raises
\* nothing and yields a record equal to R in every field, rowid included,
\* where R.rowid is the rowid create assigned. And whenever read_generator has
\* run with such a prototype, it has yielded every stored row that holds the
\* prototype's name and color, as a record equal to the row.
C1_RoundTrip ==
    /\ (/\ call.op = "create"
        /\ raised = "none"
        /\ \A c \in Range(Columns) : pre.rec[c] # None)
       => /\ rec.rowid # NullRowid
          /\ \A c \in Range(Columns) : rec[c] = pre.rec[c]
          /\ \A id \in RecordRowids :
                LET rd == ReadGenerator(Db, TRUE, [rec EXCEPT !.rowid = id],
                                        0, 0, None, "ASC")
                IN  /\ rd.raised = "none"
                    /\ \E i \in 1..Len(rd.result) : rd.result[i] = rec
    /\ (PlainRead /\ \A c \in Range(Columns) : rec[c] # None)
       => \A r \in rows :
             (\A c \in Range(Columns) : r[c] = rec[c]) => RowOf(r) \in Yielded

\* C1's case: a create that returned, of a record with both fields set, on a
\* table that already held a row.
C1_Witness ==
    /\ call.op = "create"
    /\ raised = "none"
    /\ \A c \in Range(Columns) : pre.rec[c] # None
    /\ pre.db.rows # {}

\* C4: update is a full-row replace of exactly one row. For a record with a
\* set rowid r and an existing table: when no stored row has rowid r, update
\* raises nothing and leaves the table as it was; when update returns and a
\* row has rowid r, afterwards that row holds the record's name and color,
\* every other row is as it was and the number of rows is the same; an update
\* the engine rejects leaves the table as it was.
C4_UpdateReplacesOneRow ==
    (call.op = "update" /\ pre.rec.rowid # NullRowid /\ pre.db.tableExists)
    => LET hit == PreHit(pre.rec.rowid)
       IN  /\ hit = {} => (raised = "none" /\ Db = pre.db)
           /\ (hit # {} /\ raised = "none") =>
                 /\ rows = (pre.db.rows \ hit) \cup {RowOf(pre.rec)}
                 /\ Cardinality(rows) = Cardinality(pre.db.rows)
                 /\ [Db EXCEPT !.rows = {}] = [pre.db EXCEPT !.rows = {}]
           /\ raised # "none" => Db = pre.db
           /\ rec = pre.rec

\* C4's case: an update that returned and replaced both columns of a stored
\* row while another row was stored.
C4_Witness ==
    /\ call.op = "update"
    /\ raised = "none"
    /\ \E r \in PreHit(pre.rec.rowid) : r.name # pre.rec.name /\ r.color # pre.rec.color
    /\ Cardinality(pre.db.rows) > 1

\* C5: delete removes at most one row. For a record with a set rowid r and an
\* existing table, delete raises nothing; afterwards no stored row has rowid r
\* and the stored rows are exactly the rows of other rowids that were stored
\* before, unchanged; so when no row had rowid r the table is as it was.
C5_DeleteRemovesOneRow ==
    (call.op = "delete" /\ pre.rec.rowid # NullRowid /\ pre.db.tableExists)
    => /\ raised = "none"
       /\ rows = {r \in pre.db.rows : r.rowid # pre.rec.rowid}
       /\ Cardinality(pre.db.rows) - Cardinality(rows) \in {0, 1}
       /\ [Db EXCEPT !.rows = {}] = [pre.db EXCEPT !.rows = {}]
       /\ rec = pre.rec

\* C5's case: a delete that removed a stored row and left another one.
C5_Witness ==
    /\ call.op = "delete"
    /\ PreHit(pre.rec.rowid) # {}
    /\ rows # {}
    /\ rows # pre.db.rows

\* C6: no-op guard. update and delete of a record whose rowid is None raise
\* nothing, hand no statement to the executor and leave the database and the
\* record as they were, whatever the table holds (or whether it exists) and
\* whatever the record's other fields are.
C6_NoRowidIsNoOp ==
    (call.op \in {"update", "delete"} /\ pre.rec.rowid = NullRowid)
    => /\ raised = "none"
       /\ Len(executed) = 0
       /\ Db = pre.db
       /\ rec = pre.rec

\* C6's case: an update of a record without rowid on a table that holds rows.
C6_Witness ==
    /\ call.op = "update"
    /\ pre.rec.rowid = NullRowid
    /\ pre.db.rows # {}

\* The columns of the prototype that hold the wildcard.
Wildcarded == {c \in Range(Columns) : rec[c] \in IgnoreValues}

\* C2: read by identifier. read_generator with a prototype whose rowid is set
\* to r (and whose other fields constrain nothing) yields exactly the stored
\* row whose rowid is r, and nothing when no stored row has rowid r, whatever
\* other rows the table holds.
C2_ReadByRowid ==
    (PlainRead /\ rec.rowid # NullRowid /\ Wildcarded = Range(Columns))
    => /\ Yielded = {RowOf(r) : r \in {x \in rows : x.rowid = rec.rowid}}
       /\ Len(result) = Cardinality(Yielded)

\* C3: wildcard semantics. read_generator with a prototype whose name and
\* color both hold 'any' yields every stored row; with a prototype in which
\* one of them holds a value v other than 'any' and the other holds 'any', it
\* yields exactly the stored rows whose value in that field equals v. A field
\* holding 'any' contributes no predicate and no bound parameter.
C3_WildcardSemantics ==
    PlainRead
    => /\ Wildcarded = Range(Columns) => Yielded = rows
       /\ \A c \in Range(Columns) :
             Wildcarded = Range(Columns) \ {c}
             => Yielded = {r \in rows : r[c] = rec[c]}
       /\ Len(result) = Cardinality(Yielded)
       /\ \A c \in Wildcarded :
             \A i \in 1..Len(executed[1].sql) : executed[1].sql[i].col # c
       /\ Len(executed[1].args) = Cardinality(Range(Columns) \ Wildcarded)

\* The exceptions cur.execute raises.
EngineErrors == {"sqlite3.OperationalError", "sqlite3.IntegrityError",
                 "sqlite3.ProgrammingError"}

\* The rows stored now that were not stored before the last call.
NewRows == rows \ pre.db.rows

AddressedBy(r) == {x \in rows : x.rowid = r.rowid}

\* No two stored rows share a rowid.
RowidsUnique == \A a \in rows, b \in rows : a.rowid = b.rowid => a = b

\* C8 as stated: in every reachable state a record whose rowid is None has
\* never been persisted by the mapper, the rowid create gave a record
\* addresses exactly one stored row, and no two stored rows share a rowid.
C8_RowidAddressesExactlyOne ==
    /\ rec.rowid = NullRowid => ~persisted
    /\ persisted => Cardinality(AddressedBy(rec)) = 1
    /\ RowidsUnique

\* C8, amended: in every reachable state a record whose rowid is None has
\* never been persisted by the mapper; a record's rowid that is not None
\* addresses at most one stored row: exactly one, holding the record's fields,
\* when create has just assigned it, and none once that row is deleted; and no
\* two stored rows share a rowid.
C8_RowidAddressesAtMostOne ==
    /\ rec.rowid = NullRowid => ~persisted
    /\ rec.rowid # NullRowid => Cardinality(AddressedBy(rec)) <= 1
    /\ (call.op = "create" /\ raised = "none") => AddressedBy(rec) = {RowOf(rec)}
    /\ (call.op = "delete" /\ raised = "none") => AddressedBy(rec) = {}
    /\ RowidsUnique

\* C8's case: the record create persisted has had its row deleted, while
\* another row is stored.
C8_Witness ==
    /\ call.op = "delete"
    /\ persisted
    /\ PreHit(rec.rowid) # {}
    /\ rows # {}

\* C9: schema idempotence. ensure_table on an existing table (so a second
\* call, with the same primary key list or any), and ensure_index with the
\* name of an existing index (so a second call with the same name, columns
\* and flag), raise nothing and leave the table definition, the indexes and
\* the stored rows as they were; and no call of either ever removes or changes
\* the table definition, an index or a stored row.
C9_SchemaIdempotence ==
    /\ (call.op = "ensure_table" /\ pre.db.tableExists)
       => (raised = "none" /\ Db = pre.db)
    /\ (call.op = "ensure_index" /\ \E ix \in pre.db.indexes : ix.name = call.name)
       => (raised = "none" /\ Db = pre.db)
    /\ call.op \in {"ensure_table", "ensure_index"}
       => /\ rows = pre.db.rows
          /\ pre.db.indexes \subseteq indexes
          /\ pre.db.tableExists => (tableExists /\ tablePk = pre.db.tablePk)
          /\ rec = pre.rec

\* C9's case: ensure_table repeated with the primary key list the table was
\* created with, on a table that has an index and a stored row.
C9_Witness ==
    /\ call.op = "ensure_table"
    /\ pre.db.tableExists
    /\ call.pk = pre.db.tablePk
    /\ call.pk # <<>>
    /\ pre.db.indexes # {}
    /\ pre.db.rows # {}

\* The clauses of the statement the last call executed.
Sql == executed[1].sql

\* The places of the clauses of one keyword in the executed statement.
Places(kws) == {i \in 1..Len(Sql) : Sql[i].kw \in kws}

\* C10: limit and offset. read_generator with limit 0 generates no LIMIT or
\* OFFSET clause and yields what it yields with offset 0, every row the
\* prototype matches, whatever the offset; with a limit n other than 0 and
\* offset m the statement carries one LIMIT n OFFSET m, after every WHERE
\* predicate and before any ORDER BY clause, and at most n records are yielded.
C10_LimitOffset ==
    call.op = "read"
    => /\ call.limit = 0 =>
             /\ Places({"LIMIT"}) = {}
             /\ LET rd == ReadGenerator(Db, call.hasPrototype, rec, 0, 0,
                                        call.order_by, call.direction)
                IN  result = rd.result /\ raised = rd.raised
             /\ raised = "none" =>
                   Len(result) = Cardinality(
                       {r \in rows : \A c \in Range(Columns) \ Wildcarded :
                                        call.hasPrototype => SqlEquals(r[c], rec[c])})
       /\ call.limit # 0 =>
             /\ \E i \in 1..Len(Sql) :
                   /\ Places({"LIMIT"}) = {i}
                   /\ Sql[i].n = call.limit
                   /\ Sql[i].m = call.offset
                   /\ \A j \in Places({"WHERE", "AND"}) : j < i
                   /\ \A j \in Places({"ORDER BY"}) : i < j
             /\ Len(result) <= call.limit

\* C10's case: a read with limit 0 and an offset other than 0 that yielded
\* more than one record.
C10_Witness ==
    /\ call.op = "read"
    /\ call.limit = 0
    /\ call.offset # 0
    /\ Len(result) > 1

====
